---- MODULE Spec2Model ----
(***************************************************************************)
(* Model of bingtiles.TileSystem (src/bingtiles/bingtiles.py): the         *)
(* conversions latitude/longitude <-> pixel <-> tile <-> quadkey.          *)
(*                                                                         *)
(* The library is stateless; the state of the model is the session of a    *)
(* client: the calls it made, each with its arguments and its outcome      *)
(* (a returned value or a raised exception).  A call either takes fresh    *)
(* arguments or continues the pipeline with the value returned by the      *)
(* call before it.                                                         *)
(*                                                                         *)
(* Python numbers are modelled as exact rationals n/d in lowest terms      *)
(* with the Python type ("int" or "float") attached: `/` always yields a   *)
(* float, `&` and `|` accept ints only.  Latitudes in degrees are decimal  *)
(* fixed-point numbers with eight fractional digits.  The transcendental   *)
(* functions of the math module are tabulated in fixed point.              *)
(***************************************************************************)
EXTENDS Integers, Sequences, FiniteSets, TLC

VARIABLES hist

vars == <<hist>>

----------------------------------------------------------------------------
(* Bounds of the model.                                                    *)

MaxLod == 2

MaxChain == 3

----------------------------------------------------------------------------
(* Python numbers.                                                         *)

Abs(a) == IF a < 0 THEN -a ELSE a

RECURSIVE GCD(_, _)
GCD(a, b) == IF b = 0 THEN a ELSE GCD(b, a % b)

Norm(t, n, d) ==
    LET g == GCD(Abs(n), d)
    IN  [t |-> t, n |-> n \div g, d |-> d \div g]

PyInt(k) == [t |-> "int", n |-> k, d |-> 1]

PyFloat(n, d) == Norm("float", n, d)

IsInt(a) == a.t = "int"

ArithType(a, b) == IF IsInt(a) /\ IsInt(b) THEN "int" ELSE "float"

(* Latitudes: sign s, whole degrees i, fraction f in units of 1e-8 degree. *)
Deg(s, i, f) == [s |-> s, i |-> i, f |-> f]

IsDeg(a) == "s" \in DOMAIN a

DegLt(a, b) ==
    \/ a.s * a.i < b.s * b.i
    \/ a.s * a.i = b.s * b.i /\ a.s * a.f < b.s * b.f

DegMicro(a) == a.s * (a.i * 1000000 + a.f \div 100)

DegFromMicro(m) ==
    Deg(IF m < 0 THEN -1 ELSE 1, Abs(m) \div 1000000, (Abs(m) % 1000000) * 100)

RatLt(a, b) == a.n * b.d < b.n * a.d

(* Python's a < b on the numbers of the model *)
NumLt(a, b) == IF IsDeg(a) THEN DegLt(a, b) ELSE RatLt(a, b)

NumEq(a, b) == a.n * b.d = b.n * a.d

NumAdd(a, b) == Norm(ArithType(a, b), a.n * b.d + b.n * a.d, a.d * b.d)

NumSub(a, b) == Norm(ArithType(a, b), a.n * b.d - b.n * a.d, a.d * b.d)

NumMul(a, b) ==
    LET g1 == GCD(Abs(a.n), b.d)
        g2 == GCD(Abs(b.n), a.d)
    IN  Norm(ArithType(a, b), (a.n \div g1) * (b.n \div g2),
                              (a.d \div g2) * (b.d \div g1))

TrueDiv(a, b) ==
    LET g1 == GCD(Abs(a.n), Abs(b.n))
        g2 == GCD(a.d, b.d)
        s  == IF b.n < 0 THEN -1 ELSE 1
    IN  Norm("float", s * (a.n \div g1) * (b.d \div g2),
                      (a.d \div g2) * (Abs(b.n) \div g1))

Half == PyFloat(1, 2)

(* Outcome of a call. *)
Ok(v) == [ok |-> TRUE, err |-> "", val |-> v]

Raise(e) == [ok |-> FALSE, err |-> e, val |-> <<>>]

----------------------------------------------------------------------------
(* clip and map_size.                                                      *)

max(a, b) == IF NumLt(a, b) THEN b ELSE a

min(a, b) == IF NumLt(b, a) THEN b ELSE a

clip(n, min_value, max_value) == min(max(n, min_value), max_value)

map_size(level_of_detail) == 256 * 2^level_of_detail

----------------------------------------------------------------------------
(* Class constants.                                                        *)

MIN_LATITUDE == Deg(-1, 85, 5112878)

MAX_LATITUDE == Deg(1, 85, 5112878)

MIN_LONGITUDE == PyInt(-180)

MAX_LONGITUDE == PyInt(180)

----------------------------------------------------------------------------
(* The math module, in fixed point.                                        *)

(* Resolution of the projected ordinate: y is kept in units of 1/YScale.   *)
YScale == 2^16

(* <<s, i, f, y>>: 0.5 - log((1 + sin(lat))/(1 - sin(lat)))/(4 pi), in     *)
(* units of 1/YScale, at latitude Deg(s, i, f).                            *)
MercatorTable == {
        <<-1, 100, 0, 58179>>,
        <<-1, 85, 5112878, 65536>>,
        <<-1, 80, 0, 58179>>,
        <<-1, 60, 0, 46504>>,
        <<-1, 45, 0, 41961>>,
        <<-1, 30, 0, 38497>>,
        <<1, 0, 0, 32768>>,
        <<1, 30, 0, 27039>>,
        <<1, 45, 0, 23575>>,
        <<1, 60, 0, 19032>>,
        <<1, 80, 0, 7357>>,
        <<1, 85, 5112878, 0>>,
        <<1, 100, 0, 7357>>
    }

(* sinLatitude = sin(latitude * pi / 180);                                 *)
(* y = 0.5 - log((1 + sinLatitude) / (1 - sinLatitude)) / (4 * pi).        *)
(* At 90 degrees 1 - sinLatitude is 0.0 and the division raises; at -90    *)
(* degrees the argument of log is 0.0 and log raises.                      *)
MercatorY(latitude) ==
    IF latitude.i = 90 /\ latitude.f = 0
    THEN Raise(IF latitude.s = 1 THEN "ZeroDivisionError" ELSE "ValueError")
    ELSE LET r == CHOOSE e \in MercatorTable :
                     Deg(e[1], e[2], e[3]) = latitude
         IN  Ok(PyFloat(r[4], YScale))

(* 90 - 360 * atan(exp(-y * 2 * pi)) / pi in microdegrees, at              *)
(* y = 0.5 - k/Knots for k = 0 .. Knots.                                   *)
InverseMercatorTable == <<
        85051129, 84928321, 84802474, 84673513, 84541361, 84405941,
        84267172, 84124973, 83979259, 83829945, 83676943, 83520162,
        83359511, 83194896, 83026219, 82853382, 82676285, 82494824,
        82308893, 82118384, 81923186, 81723188, 81518272, 81308321,
        81093214, 80872827, 80647035, 80415707, 80178713, 79935918,
        79687184, 79432371, 79171335, 78903929, 78630006, 78349411,
        78061989, 77767582, 77466028, 77157163, 76840816, 76516819,
        76184995, 75845169, 75497157, 75140778, 74775843, 74402163,
        74019543, 73627789, 73226700, 72816074, 72395706, 71965388,
        71524909, 71074056, 70612614, 70140364, 69657086, 69162558,
        68656555, 68138852, 67609221, 67067433, 66513260, 65946472,
        65366837, 64774125, 64168107, 63548552, 62915233, 62267923,
        61606396, 60930432, 60239811, 59534318, 58813742, 58077876,
        57326521, 56559482, 55776573, 54977614, 54162434, 53330873,
        52482780, 51618017, 50736455, 49837982, 48922499, 47989922,
        47040182, 46073231, 45089036, 44087585, 43068888, 42032974,
        40979898, 39909736, 38822591, 37718590, 36597889, 35460670,
        34307144, 33137551, 31952162, 30751278, 29535230, 28304381,
        27059126, 25799891, 24527135, 23241346, 21943046, 20632784,
        19311143, 17978733, 16636192, 15284185, 13923404, 12554564,
        11178402, 9795678, 8407168, 7013668, 5615986, 4214943,
        2811371, 1406109, 0, -1406109, -2811371, -4214943,
        -5615986, -7013668, -8407168, -9795678, -11178402, -12554564,
        -13923404, -15284185, -16636192, -17978733, -19311143, -20632784,
        -21943046, -23241346, -24527135, -25799891, -27059126, -28304381,
        -29535230, -30751278, -31952162, -33137551, -34307144, -35460670,
        -36597889, -37718590, -38822591, -39909736, -40979898, -42032974,
        -43068888, -44087585, -45089036, -46073231, -47040182, -47989922,
        -48922499, -49837982, -50736455, -51618017, -52482780, -53330873,
        -54162434, -54977614, -55776573, -56559482, -57326521, -58077876,
        -58813742, -59534318, -60239811, -60930432, -61606396, -62267923,
        -62915233, -63548552, -64168107, -64774125, -65366837, -65946472,
        -66513260, -67067433, -67609221, -68138852, -68656555, -69162558,
        -69657086, -70140364, -70612614, -71074056, -71524909, -71965388,
        -72395706, -72816074, -73226700, -73627789, -74019543, -74402163,
        -74775843, -75140778, -75497157, -75845169, -76184995, -76516819,
        -76840816, -77157163, -77466028, -77767582, -78061989, -78349411,
        -78630006, -78903929, -79171335, -79432371, -79687184, -79935918,
        -80178713, -80415707, -80647035, -80872827, -81093214, -81308321,
        -81518272, -81723188, -81923186, -82118384, -82308893, -82494824,
        -82676285, -82853382, -83026219, -83194896, -83359511, -83520162,
        -83676943, -83829945, -83979259, -84124973, -84267172, -84405941,
        -84541361, -84673513, -84802474, -84928321, -85051129
    >>

(* Number of intervals of the table of the inverse projection.             *)
Knots == Len(InverseMercatorTable) - 1

(* floor(n * m / q) without overflow *)
MulDivFloor(n, m, q) ==
    LET g  == GCD(m, q)
        m1 == m \div g
        q1 == q \div g
    IN  (n \div q1) * m1 + ((n % q1) * m1) \div q1

(* latitude = 90 - 360 * atan(exp(-y * 2 * pi)) / pi, by linear            *)
(* interpolation in the table.                                             *)
InverseMercatorLat(y) ==
    LET u   == NumSub(Half, y)
        u16 == MulDivFloor(u.n, YScale, u.d)
        k   == u16 \div (YScale \div Knots)
        r   == u16 % (YScale \div Knots)
        t0  == InverseMercatorTable[k + 1]
        t1  == IF r = 0 THEN t0 ELSE InverseMercatorTable[k + 2]
    IN  DegFromMicro(t0 + ((t1 - t0) * r) \div (YScale \div Knots))

----------------------------------------------------------------------------
(* Latitude/longitude and pixels.                                          *)

(* the pixel clipped to map_size instead of map_size - 1 *)
latlong_to_pixel_xy_wide(latitude, longitude, level_of_detail) ==
    LET lat  == clip(latitude, MIN_LATITUDE, MAX_LATITUDE)
        lon  == clip(longitude, MIN_LONGITUDE, MAX_LONGITUDE)
        x    == TrueDiv(NumAdd(lon, PyInt(180)), PyInt(360))
        y    == MercatorY(lat)
        size == map_size(level_of_detail)
        pixel_x == clip(NumAdd(NumMul(x, PyInt(size)), Half),
                        PyInt(0), PyInt(size))
        pixel_y == clip(NumAdd(NumMul(y.val, PyInt(size)), Half),
                        PyInt(0), PyInt(size))
    IN  IF y.ok THEN Ok(<<pixel_x, pixel_y>>) ELSE y

latlong_to_pixel_xy(latitude, longitude, level_of_detail) ==
    LET lat  == clip(latitude, MIN_LATITUDE, MAX_LATITUDE)
        lon  == clip(longitude, MIN_LONGITUDE, MAX_LONGITUDE)
        x    == TrueDiv(NumAdd(lon, PyInt(180)), PyInt(360))
        y    == MercatorY(lat)
        size == map_size(level_of_detail)
        pixel_x == clip(NumAdd(NumMul(x, PyInt(size)), Half),
                        PyInt(0), PyInt(size - 1))
        pixel_y == clip(NumAdd(NumMul(y.val, PyInt(size)), Half),
                        PyInt(0), PyInt(size - 1))
    IN  IF y.ok THEN Ok(<<pixel_x, pixel_y>>) ELSE y

(* the y axis upside down: y = pixel_y / map_size - 0.5 *)
pixel_xy_to_latlong_flipped(pixel_x, pixel_y, level_of_detail) ==
    LET size == map_size(level_of_detail)
        x == NumSub(TrueDiv(clip(pixel_x, PyInt(0), PyInt(size - 1)),
                            PyInt(size)), Half)
        y == NumSub(TrueDiv(clip(pixel_y, PyInt(0), PyInt(size - 1)),
                            PyInt(size)), Half)
        latitude  == InverseMercatorLat(y)
        longitude == NumMul(PyInt(360), x)
    IN  Ok(<<latitude, longitude>>)

pixel_xy_to_latlong(pixel_x, pixel_y, level_of_detail) ==
    LET size == map_size(level_of_detail)
        x == NumSub(TrueDiv(clip(pixel_x, PyInt(0), PyInt(size - 1)),
                            PyInt(size)), Half)
        y == NumSub(Half, TrueDiv(clip(pixel_y, PyInt(0), PyInt(size - 1)),
                                  PyInt(size)))
        latitude  == InverseMercatorLat(y)
        longitude == NumMul(PyInt(360), x)
    IN  Ok(<<latitude, longitude>>)

----------------------------------------------------------------------------
(* Tiles and pixels.                                                       *)

pixel_xy_to_tile_xy(pixel_x, pixel_y) ==
    LET tile_x == TrueDiv(pixel_x, PyInt(256))
        tile_y == TrueDiv(pixel_y, PyInt(256))
    IN  Ok(<<tile_x, tile_y>>)

(* pixel_y computed from tile_x *)
tile_xy_to_pixel_xy_copied(tile_x, tile_y) ==
    LET pixel_x == NumMul(tile_x, PyInt(256))
        pixel_y == NumMul(tile_x, PyInt(256))
    IN  Ok(<<pixel_x, pixel_y>>)

tile_xy_to_pixel_xy(tile_x, tile_y) ==
    LET pixel_x == NumMul(tile_x, PyInt(256))
        pixel_y == NumMul(tile_y, PyInt(256))
    IN  Ok(<<pixel_x, pixel_y>>)

----------------------------------------------------------------------------
(* Quadkeys.  A quadkey is a sequence of one-character strings.            *)

DigitChars == <<"0", "1", "2", "3">>

str(digit) == DigitChars[digit + 1]

(* a & mask and a | mask for a >= 0 and mask a power of two *)
BitAnd(a, mask) == ((a \div mask) % 2) * mask

BitOr(a, mask) == IF BitAnd(a, mask) # 0 THEN a ELSE a + mask

(* mask = 1 << i instead of 1 << (i - 1) *)
RECURSIVE tile_xy_to_quadkey_loop_mask(_, _, _, _)
tile_xy_to_quadkey_loop_mask(tile_x, tile_y, i, quadkey) ==
    IF i <= 0 THEN Ok(quadkey)
    ELSE IF ~IsInt(tile_x) \/ ~IsInt(tile_y) THEN Raise("TypeError")
    ELSE LET mask  == 2^i
             dx    == IF BitAnd(tile_x.n, mask) # 0 THEN 1 ELSE 0
             dy    == IF BitAnd(tile_y.n, mask) # 0 THEN 2 ELSE 0
             digit == dx + dy
         IN  tile_xy_to_quadkey_loop_mask(tile_x, tile_y, i - 1,
                                          quadkey \o <<str(digit)>>)

(* the digit prepended to the quadkey instead of appended *)
RECURSIVE tile_xy_to_quadkey_loop_prepend(_, _, _, _)
tile_xy_to_quadkey_loop_prepend(tile_x, tile_y, i, quadkey) ==
    IF i <= 0 THEN Ok(quadkey)
    ELSE IF ~IsInt(tile_x) \/ ~IsInt(tile_y) THEN Raise("TypeError")
    ELSE LET mask  == 2^(i - 1)
             dx    == IF BitAnd(tile_x.n, mask) # 0 THEN 1 ELSE 0
             dy    == IF BitAnd(tile_y.n, mask) # 0 THEN 2 ELSE 0
             digit == dx + dy
         IN  tile_xy_to_quadkey_loop_prepend(tile_x, tile_y, i - 1,
                                             <<str(digit)>> \o quadkey)

RECURSIVE tile_xy_to_quadkey_loop(_, _, _, _)
tile_xy_to_quadkey_loop(tile_x, tile_y, i, quadkey) ==
    IF i <= 0 THEN Ok(quadkey)
    ELSE IF ~IsInt(tile_x) \/ ~IsInt(tile_y) THEN Raise("TypeError")
    ELSE LET mask  == 2^(i - 1)
             dx    == IF BitAnd(tile_x.n, mask) # 0 THEN 1 ELSE 0
             dy    == IF BitAnd(tile_y.n, mask) # 0 THEN 2 ELSE 0
             digit == dx + dy
         IN  tile_xy_to_quadkey_loop(tile_x, tile_y, i - 1,
                                     quadkey \o <<str(digit)>>)

tile_xy_to_quadkey(tile_x, tile_y, level_of_detail) ==
    tile_xy_to_quadkey_loop(tile_x, tile_y, level_of_detail, <<>>)

(* the character read at index i - 1, from the end of the string *)
RECURSIVE quadkey_to_tile_xy_loop_reversed(_, _, _, _)
quadkey_to_tile_xy_loop_reversed(quadkey, i, tile_x, tile_y) ==
    LET level_of_detail == Len(quadkey)
    IN  IF i <= 0 THEN Ok(<<PyInt(tile_x), PyInt(tile_y), level_of_detail>>)
        ELSE LET mask == 2^(i - 1)
                 c    == quadkey[i]
             IN  CASE c = "0" ->
                        quadkey_to_tile_xy_loop_reversed(quadkey, i - 1, tile_x, tile_y)
                   [] c = "1" ->
                        quadkey_to_tile_xy_loop_reversed(quadkey, i - 1, BitOr(tile_x, mask), tile_y)
                   [] c = "2" ->
                        quadkey_to_tile_xy_loop_reversed(quadkey, i - 1, tile_x, BitOr(tile_y, mask))
                   [] c = "3" ->
                        quadkey_to_tile_xy_loop_reversed(quadkey, i - 1,
                            BitOr(tile_x, mask), BitOr(tile_y, mask))
                   [] OTHER -> Raise("ValueError")

(* a character other than '0'..'3' skipped like '0' *)
RECURSIVE quadkey_to_tile_xy_loop_lenient(_, _, _, _)
quadkey_to_tile_xy_loop_lenient(quadkey, i, tile_x, tile_y) ==
    LET level_of_detail == Len(quadkey)
    IN  IF i <= 0 THEN Ok(<<PyInt(tile_x), PyInt(tile_y), level_of_detail>>)
        ELSE LET mask == 2^(i - 1)
                 c    == quadkey[level_of_detail - i + 1]
             IN  CASE c = "0" ->
                        quadkey_to_tile_xy_loop_lenient(quadkey, i - 1, tile_x, tile_y)
                   [] c = "1" ->
                        quadkey_to_tile_xy_loop_lenient(quadkey, i - 1, BitOr(tile_x, mask), tile_y)
                   [] c = "2" ->
                        quadkey_to_tile_xy_loop_lenient(quadkey, i - 1, tile_x, BitOr(tile_y, mask))
                   [] c = "3" ->
                        quadkey_to_tile_xy_loop_lenient(quadkey, i - 1,
                            BitOr(tile_x, mask), BitOr(tile_y, mask))
                   [] OTHER -> quadkey_to_tile_xy_loop_lenient(quadkey, i - 1, tile_x, tile_y)

(* '1' sets the bit of tile_y and '2' the bit of tile_x *)
RECURSIVE quadkey_to_tile_xy_loop_swapped(_, _, _, _)
quadkey_to_tile_xy_loop_swapped(quadkey, i, tile_x, tile_y) ==
    LET level_of_detail == Len(quadkey)
    IN  IF i <= 0 THEN Ok(<<PyInt(tile_x), PyInt(tile_y), level_of_detail>>)
        ELSE LET mask == 2^(i - 1)
                 c    == quadkey[level_of_detail - i + 1]
             IN  CASE c = "0" ->
                        quadkey_to_tile_xy_loop_swapped(quadkey, i - 1, tile_x, tile_y)
                   [] c = "1" ->
                        quadkey_to_tile_xy_loop_swapped(quadkey, i - 1, tile_x, BitOr(tile_y, mask))
                   [] c = "2" ->
                        quadkey_to_tile_xy_loop_swapped(quadkey, i - 1, BitOr(tile_x, mask), tile_y)
                   [] c = "3" ->
                        quadkey_to_tile_xy_loop_swapped(quadkey, i - 1,
                            BitOr(tile_x, mask), BitOr(tile_y, mask))
                   [] OTHER -> Raise("ValueError")

RECURSIVE quadkey_to_tile_xy_loop(_, _, _, _)
quadkey_to_tile_xy_loop(quadkey, i, tile_x, tile_y) ==
    LET level_of_detail == Len(quadkey)
    IN  IF i <= 0 THEN Ok(<<PyInt(tile_x), PyInt(tile_y), level_of_detail>>)
        ELSE LET mask == 2^(i - 1)
                 c    == quadkey[level_of_detail - i + 1]
             IN  CASE c = "0" ->
                        quadkey_to_tile_xy_loop(quadkey, i - 1, tile_x, tile_y)
                   [] c = "1" ->
                        quadkey_to_tile_xy_loop(quadkey, i - 1,
                                                BitOr(tile_x, mask), tile_y)
                   [] c = "2" ->
                        quadkey_to_tile_xy_loop(quadkey, i - 1,
                                                tile_x, BitOr(tile_y, mask))
                   [] c = "3" ->
                        quadkey_to_tile_xy_loop(quadkey, i - 1,
                                                BitOr(tile_x, mask),
                                                BitOr(tile_y, mask))
                   [] OTHER -> Raise("ValueError")

quadkey_to_tile_xy(quadkey) ==
    quadkey_to_tile_xy_loop(quadkey, Len(quadkey), 0, 0)

----------------------------------------------------------------------------
(* The arguments a client passes.                                          *)

Lods == 0 .. MaxLod

Latitudes == {Deg(e[1], e[2], e[3]) : e \in MercatorTable}
                 \cup {Deg(-1, 90, 0), Deg(1, 90, 0)}

Longitudes == {PyInt(-200), PyInt(-180), PyInt(-90), PyInt(0), PyInt(45),
               PyInt(179), PyFloat(1799, 10), PyInt(180), PyInt(200)}

PixelOffsets == {0, 1, 44, 255}

Pixels == {256 * t + o : t \in 0 .. (2^MaxLod - 1), o \in PixelOffsets}

Tiles == 0 .. (2^(MaxLod + 1) - 1)

QuadkeyAlphabet == {"0", "1", "2", "3", "4", "a"}

Quadkeys == UNION {[1 .. n -> QuadkeyAlphabet] : n \in 0 .. MaxLod}

----------------------------------------------------------------------------
(* The session: the calls of the current pipeline, the latest last.        *)

Call(fn, args, ret) == [fn |-> fn, args |-> args, ret |-> ret]

Last == hist[Len(hist)]

(* a call with fresh arguments starts a pipeline *)
Start(c) == hist = <<>> /\ hist' = <<c>>

(* a call on the value the last call returned continues the pipeline *)
CanChain(fns) ==
    /\ Len(hist) >= 1
    /\ Len(hist) < MaxChain
    /\ Last.fn \in fns
    /\ Last.ret.ok

Continue(c) == hist' = Append(hist, c)

Init == hist = <<>>

Do_latlong_to_pixel_xy ==
    \E lat \in Latitudes, lon \in Longitudes, lod \in Lods :
        Start(Call("latlong_to_pixel_xy", <<lat, lon, lod>>,
                   latlong_to_pixel_xy(lat, lon, lod)))

Do_pixel_xy_to_latlong ==
    \/ \E px \in Pixels, py \in Pixels, lod \in Lods :
          Start(Call("pixel_xy_to_latlong", <<PyInt(px), PyInt(py), lod>>,
                     pixel_xy_to_latlong(PyInt(px), PyInt(py), lod)))
    \/ /\ CanChain({"latlong_to_pixel_xy", "tile_xy_to_pixel_xy"})
       /\ \E lod \in Lods :
             LET p == Last.ret.val
             IN  Continue(Call("pixel_xy_to_latlong", <<p[1], p[2], lod>>,
                               pixel_xy_to_latlong(p[1], p[2], lod)))

Do_pixel_xy_to_tile_xy ==
    \/ \E px \in Pixels, py \in Pixels :
          Start(Call("pixel_xy_to_tile_xy", <<PyInt(px), PyInt(py)>>,
                     pixel_xy_to_tile_xy(PyInt(px), PyInt(py))))
    \/ /\ CanChain({"latlong_to_pixel_xy", "tile_xy_to_pixel_xy"})
       /\ LET p == Last.ret.val
          IN  Continue(Call("pixel_xy_to_tile_xy", <<p[1], p[2]>>,
                            pixel_xy_to_tile_xy(p[1], p[2])))

Do_tile_xy_to_pixel_xy ==
    \/ \E tx \in Tiles, ty \in Tiles :
          Start(Call("tile_xy_to_pixel_xy", <<PyInt(tx), PyInt(ty)>>,
                     tile_xy_to_pixel_xy(PyInt(tx), PyInt(ty))))
    \/ /\ CanChain({"pixel_xy_to_tile_xy", "quadkey_to_tile_xy"})
       /\ LET t == Last.ret.val
          IN  Continue(Call("tile_xy_to_pixel_xy", <<t[1], t[2]>>,
                            tile_xy_to_pixel_xy(t[1], t[2])))

Do_tile_xy_to_quadkey ==
    \/ \E tx \in Tiles, ty \in Tiles, lod \in Lods :
          Start(Call("tile_xy_to_quadkey", <<PyInt(tx), PyInt(ty), lod>>,
                     tile_xy_to_quadkey(PyInt(tx), PyInt(ty), lod)))
    \/ /\ CanChain({"pixel_xy_to_tile_xy", "quadkey_to_tile_xy"})
       /\ \E lod \in Lods :
             LET t == Last.ret.val
             IN  Continue(Call("tile_xy_to_quadkey", <<t[1], t[2], lod>>,
                               tile_xy_to_quadkey(t[1], t[2], lod)))

Do_quadkey_to_tile_xy ==
    \/ \E q \in Quadkeys :
          Start(Call("quadkey_to_tile_xy", <<q>>, quadkey_to_tile_xy(q)))
    \/ /\ CanChain({"tile_xy_to_quadkey"})
       /\ LET q == Last.ret.val
          IN  Continue(Call("quadkey_to_tile_xy", <<q>>,
                            quadkey_to_tile_xy(q)))

(* the client drops the pipeline and starts over *)
Forget == hist # <<>> /\ hist' = <<>>

Next ==
    \/ Do_latlong_to_pixel_xy
    \/ Do_pixel_xy_to_latlong
    \/ Do_pixel_xy_to_tile_xy
    \/ Do_tile_xy_to_pixel_xy
    \/ Do_tile_xy_to_quadkey
    \/ Do_quadkey_to_tile_xy
    \/ Forget

Spec == Init /\ [][Next]_vars

----------------------------------------------------------------------------
(* Properties.                                                             *)

Calls == 1 .. Len(hist)

IsCall(k, fn) == k \in Calls /\ hist[k].fn = fn

(* call k was made on the value call k - 1 returned *)
Follows(k, fn) ==
    /\ k >= 2
    /\ hist[k - 1].fn = fn
    /\ hist[k - 1].ret.ok

NatInt(a) == IsInt(a) /\ a.n >= 0

Bit(a, b) == (a \div 2^b) % 2

Digits == {DigitChars[j] : j \in 1 .. Len(DigitChars)}

(* C1: for lod >= 0 and non-negative integers tile_x, tile_y < 2^lod,      *)
(* quadkey_to_tile_xy applied to the quadkey returned by                   *)
(* tile_xy_to_quadkey(tile_x, tile_y, lod) returns exactly                 *)
(* (tile_x, tile_y, lod).                                                  *)
C1_RoundTripTile ==
    \A k \in Calls :
        (/\ IsCall(k, "quadkey_to_tile_xy")
         /\ Follows(k, "tile_xy_to_quadkey")
         /\ hist[k].args = <<hist[k - 1].ret.val>>
         /\ NatInt(hist[k - 1].args[1]) /\ NatInt(hist[k - 1].args[2])
         /\ hist[k - 1].args[1].n < 2^(hist[k - 1].args[3])
         /\ hist[k - 1].args[2].n < 2^(hist[k - 1].args[3]))
        => hist[k].ret = Ok(hist[k - 1].args)

C1_Witness ==
    /\ Len(hist) = 2
    /\ hist[1].fn = "tile_xy_to_quadkey"
    /\ hist[1].args = <<PyInt(1), PyInt(2), 2>>
    /\ hist[2].fn = "quadkey_to_tile_xy"
    /\ hist[2].ret = Ok(<<PyInt(1), PyInt(2), 2>>)

(* C2: quadkey_to_tile_xy raises the invalid-digit error (ValueError) and  *)
(* returns nothing whenever some character of the quadkey, at any          *)
(* position, is not one of '0', '1', '2', '3'; on a quadkey made of these  *)
(* characters only it returns.                                             *)
C2_InvalidDigit ==
    \A k \in Calls :
        IsCall(k, "quadkey_to_tile_xy") =>
            LET q == hist[k].args[1]
            IN  IF \E p \in 1 .. Len(q) : q[p] \notin Digits
                THEN hist[k].ret = Raise("ValueError")
                ELSE hist[k].ret.ok

C2_Witness ==
    /\ IsCall(1, "quadkey_to_tile_xy")
    /\ hist[1].args = << <<"3", "a">> >>
    /\ hist[1].ret = Raise("ValueError")

(* C3: for every lod and integer pixel coordinates in                      *)
(* [0, map_size(lod) - 1], pixel_xy_to_tile_xy returns the floor division  *)
(* (pixel_x div 256, pixel_y div 256): integers in [0, 2^lod - 1], never   *)
(* a fractional value.                                                     *)
C3_FloorDivision ==
    \A k \in Calls : \A lod \in Lods :
        (/\ IsCall(k, "pixel_xy_to_tile_xy")
         /\ NatInt(hist[k].args[1]) /\ NatInt(hist[k].args[2])
         /\ hist[k].args[1].n <= map_size(lod) - 1
         /\ hist[k].args[2].n <= map_size(lod) - 1)
        => /\ hist[k].ret.ok
           /\ \A j \in 1 .. 2 :
                 LET t == hist[k].ret.val[j]
                 IN  /\ t.d = 1
                     /\ t.n = hist[k].args[j].n \div 256
                     /\ 0 <= t.n /\ t.n <= 2^lod - 1

(* C4: for lod >= 0 and non-negative integers tile_x, tile_y,              *)
(* tile_xy_to_quadkey returns a string of length lod whose character at    *)
(* 0-indexed position p is the digit                                       *)
(* (bit lod-1-p of tile_x) + 2 * (bit lod-1-p of tile_y); the empty        *)
(* string for lod = 0.                                                     *)
C4_QuadkeyDigits ==
    \A k \in Calls :
        (/\ IsCall(k, "tile_xy_to_quadkey")
         /\ NatInt(hist[k].args[1]) /\ NatInt(hist[k].args[2]))
        => LET tx  == hist[k].args[1].n
               ty  == hist[k].args[2].n
               lod == hist[k].args[3]
               q   == hist[k].ret.val
           IN  /\ hist[k].ret.ok
               /\ Len(q) = lod
               /\ \A p \in 0 .. lod - 1 :
                     q[p + 1] = DigitChars[Bit(tx, lod - 1 - p)
                                           + 2 * Bit(ty, lod - 1 - p) + 1]
               /\ lod = 0 => q = <<>>

C4_Witness ==
    /\ IsCall(1, "tile_xy_to_quadkey")
    /\ hist[1].args = <<PyInt(5), PyInt(3), 2>>
    /\ hist[1].ret = Ok(<<"2", "3">>)

ClampLatitude(lat) ==
    IF DegLt(lat, MIN_LATITUDE) THEN MIN_LATITUDE
    ELSE IF DegLt(MAX_LATITUDE, lat) THEN MAX_LATITUDE ELSE lat

ClampLongitude(lon) ==
    IF RatLt(lon, MIN_LONGITUDE) THEN MIN_LONGITUDE
    ELSE IF RatLt(MAX_LONGITUDE, lon) THEN MAX_LONGITUDE ELSE lon

InMap(p, lod) == ~RatLt(p, PyInt(0)) /\ ~RatLt(PyInt(map_size(lod) - 1), p)

(* C5: for every lod and every latitude and longitude, out-of-range ones   *)
(* included, latlong_to_pixel_xy returns (no exception) a pair with        *)
(* 0 <= pixel_x, pixel_y <= map_size(lod) - 1, and the result is the one   *)
(* of the input clamped to the nearest bound.                              *)
C5_PixelInMap ==
    \A k \in Calls :
        IsCall(k, "latlong_to_pixel_xy") =>
            LET lat == hist[k].args[1]
                lon == hist[k].args[2]
                lod == hist[k].args[3]
            IN  /\ hist[k].ret.ok
                /\ InMap(hist[k].ret.val[1], lod)
                /\ InMap(hist[k].ret.val[2], lod)
                /\ hist[k].ret = latlong_to_pixel_xy(ClampLatitude(lat),
                                                     ClampLongitude(lon), lod)

C5_Witness ==
    /\ IsCall(1, "latlong_to_pixel_xy")
    /\ hist[1].args = <<Deg(1, 100, 0), PyInt(200), 1>>
    /\ hist[1].ret = Ok(<<PyInt(511), PyFloat(1, 2)>>)

(* C6: for latitude in [MIN_LATITUDE, MAX_LATITUDE] and longitude in       *)
(* [MIN_LONGITUDE, MAX_LONGITUDE], pixel_xy_to_latlong applied at the same *)
(* lod to the result of latlong_to_pixel_xy(lat, lon, lod) returns         *)
(* (lat, lon) within one pixel, 360 / map_size(lod) degrees.               *)
C6_RoundTripLatLong ==
    \A k \in Calls :
        (/\ IsCall(k, "pixel_xy_to_latlong")
         /\ Follows(k, "latlong_to_pixel_xy")
         /\ hist[k].args = hist[k - 1].ret.val \o <<hist[k - 1].args[3]>>
         /\ ClampLatitude(hist[k - 1].args[1]) = hist[k - 1].args[1]
         /\ ClampLongitude(hist[k - 1].args[2]) = hist[k - 1].args[2])
        => LET lat  == hist[k - 1].args[1]
               lon  == hist[k - 1].args[2]
               size == map_size(hist[k].args[3])
               dlat == DegMicro(hist[k].ret.val[1]) - DegMicro(lat)
               dlon == NumSub(hist[k].ret.val[2], lon)
           IN  /\ hist[k].ret.ok
               /\ Abs(dlat) <= 360000000 \div size
               /\ Abs(dlon.n) * size <= 360 * dlon.d

C6_Witness ==
    /\ Len(hist) = 2
    /\ hist[1].fn = "latlong_to_pixel_xy"
    /\ hist[1].args = <<Deg(1, 45, 0), PyInt(180), 1>>
    /\ hist[2].fn = "pixel_xy_to_latlong"
    /\ hist[2].args[3] = 1
    /\ NumEq(hist[2].ret.val[2], PyFloat(180 * 512 - 360, 512))
    /\ Abs(DegMicro(hist[2].ret.val[1]) - 45000000) > 100000

(* C7: for non-negative integer tile coordinates tile_xy_to_pixel_xy       *)
(* returns (tile_x * 256, tile_y * 256), and pixel_xy_to_tile_xy of that   *)
(* result equals (tile_x, tile_y).                                         *)
C7_TileCorner ==
    \A k \in Calls :
        (/\ IsCall(k, "tile_xy_to_pixel_xy")
         /\ NatInt(hist[k].args[1]) /\ NatInt(hist[k].args[2]))
        => /\ hist[k].ret = Ok(<<PyInt(hist[k].args[1].n * 256),
                                 PyInt(hist[k].args[2].n * 256)>>)
           /\ (/\ IsCall(k + 1, "pixel_xy_to_tile_xy")
               /\ hist[k + 1].args = hist[k].ret.val)
              => /\ hist[k + 1].ret.ok
                 /\ NumEq(hist[k + 1].ret.val[1], hist[k].args[1])
                 /\ NumEq(hist[k + 1].ret.val[2], hist[k].args[2])

C7_Witness ==
    /\ Len(hist) = 2
    /\ hist[1].fn = "tile_xy_to_pixel_xy"
    /\ hist[1].args = <<PyInt(3), PyInt(2)>>
    /\ hist[1].ret = Ok(<<PyInt(768), PyInt(512)>>)
    /\ hist[2].fn = "pixel_xy_to_tile_xy"
    /\ NumEq(hist[2].ret.val[1], PyInt(3))
    /\ NumEq(hist[2].ret.val[2], PyInt(2))

(* C8: for every string q over '0'..'3', the empty one included,           *)
(* quadkey_to_tile_xy(q) returns (tile_x, tile_y, lod) with lod the length *)
(* of q and 0 <= tile_x, tile_y < 2^lod, and tile_xy_to_quadkey of that    *)
(* result returns q; the empty string gives (0, 0, 0).                     *)
C8_RoundTripQuadkey ==
    \A k \in Calls :
        (/\ IsCall(k, "quadkey_to_tile_xy")
         /\ \A p \in 1 .. Len(hist[k].args[1]) :
               hist[k].args[1][p] \in Digits)
        => LET q == hist[k].args[1]
               r == hist[k].ret.val
           IN  /\ hist[k].ret.ok
               /\ r[3] = Len(q)
               /\ NatInt(r[1]) /\ r[1].n < 2^(r[3])
               /\ NatInt(r[2]) /\ r[2].n < 2^(r[3])
               /\ q = <<>> => r = <<PyInt(0), PyInt(0), 0>>
               /\ (/\ IsCall(k + 1, "tile_xy_to_quadkey")
                   /\ hist[k + 1].args = r)
                  => hist[k + 1].ret = Ok(q)

C8_Witness ==
    /\ Len(hist) = 2
    /\ hist[1].fn = "quadkey_to_tile_xy"
    /\ hist[1].args = << <<"1", "2">> >>
    /\ hist[1].ret = Ok(<<PyInt(2), PyInt(1), 2>>)
    /\ hist[2].fn = "tile_xy_to_quadkey"
    /\ hist[2].args = hist[1].ret.val
    /\ hist[2].ret = Ok(<<"1", "2">>)

(* C9: for lod >= 1 and integer pixel coordinates in                       *)
(* [0, map_size(lod) - 1], tile_xy_to_quadkey applied at that lod to the   *)
(* result of pixel_xy_to_tile_xy returns (no exception) a quadkey of       *)
(* length lod, and quadkey_to_tile_xy of it returns                        *)
(* (pixel_x div 256, pixel_y div 256, lod).                                *)
C9_Pipeline ==
    \A k \in Calls :
        (/\ IsCall(k, "tile_xy_to_quadkey")
         /\ Follows(k, "pixel_xy_to_tile_xy")
         /\ <<hist[k].args[1], hist[k].args[2]>> = hist[k - 1].ret.val
         /\ hist[k].args[3] >= 1
         /\ NatInt(hist[k - 1].args[1]) /\ NatInt(hist[k - 1].args[2])
         /\ hist[k - 1].args[1].n <= map_size(hist[k].args[3]) - 1
         /\ hist[k - 1].args[2].n <= map_size(hist[k].args[3]) - 1)
        => /\ hist[k].ret.ok
           /\ Len(hist[k].ret.val) = hist[k].args[3]
           /\ (/\ IsCall(k + 1, "quadkey_to_tile_xy")
               /\ hist[k + 1].args = <<hist[k].ret.val>>)
              => hist[k + 1].ret =
                    Ok(<<PyInt(hist[k - 1].args[1].n \div 256),
                         PyInt(hist[k - 1].args[2].n \div 256),
                         hist[k].args[3]>>)

(* C10: for lod >= 1 and non-negative integers tile_x, tile_y < 2^lod, the *)
(* quadkey of the parent tile (tile_x div 2, tile_y div 2) at lod - 1 is   *)
(* the first lod - 1 characters of the quadkey of (tile_x, tile_y) at lod, *)
(* whose last character is the digit (tile_x mod 2) + 2 * (tile_y mod 2).  *)
C10_ParentPrefix ==
    \A k \in Calls :
        (/\ IsCall(k, "tile_xy_to_quadkey")
         /\ hist[k].args[3] >= 1
         /\ NatInt(hist[k].args[1]) /\ NatInt(hist[k].args[2])
         /\ hist[k].args[1].n < 2^(hist[k].args[3])
         /\ hist[k].args[2].n < 2^(hist[k].args[3]))
        => LET tx  == hist[k].args[1].n
               ty  == hist[k].args[2].n
               lod == hist[k].args[3]
               q   == hist[k].ret.val
           IN  /\ hist[k].ret.ok
               /\ Len(q) = lod
               /\ tile_xy_to_quadkey(PyInt(tx \div 2), PyInt(ty \div 2),
                                     lod - 1) = Ok(SubSeq(q, 1, lod - 1))
               /\ q[lod] = DigitChars[(tx % 2) + 2 * (ty % 2) + 1]

C10_Witness ==
    /\ IsCall(1, "tile_xy_to_quadkey")
    /\ hist[1].args = <<PyInt(2), PyInt(3), 2>>
    /\ hist[1].ret = Ok(<<"3", "2">>)

====
